---- MODULE Spec2Model ----
(***************************************************************************)
(* The grocery list application: the three server variants (in-memory,    *)
(* JSON-file-backed, BigQuery-backed) behind one REST surface, and the     *)
(* particle effects of the browser pages.                                  *)
(*                                                                         *)
(* JavaScript values are written as their JSON text: "undefined" is an     *)
(* absent field, "null" is null, "true" and "false" are the booleans,      *)
(* "0".."3" are numbers, "" is the empty string and every other string is  *)
(* a non-empty string.                                                     *)
(***************************************************************************)
EXTENDS Integers, Sequences, FiniteSets, TLC

VARIABLES
  variant,       \* which server file runs: "memory", "file" or "bigquery"
  groceryItems,  \* the server's in-memory array
  dataFile,      \* file variant: data/grocery-items.json
  table,         \* BigQuery variant: the rows of the warehouse table
  clock,         \* the wall clock read by new Date()
  uuidCount,     \* how many identifiers uuidv4() has handed out
  inflight,      \* BigQuery variant: handlers suspended at an await
  failures,      \* how many storage calls have failed so far
  last,          \* the request answered last, with its response
  particles,     \* ConfettiCannon: the active particles
  animationId,   \* ConfettiCannon: the handle of the frame requested last, or null
  frames,        \* ConfettiCannon: frame callbacks requested and not yet run
  rainTicks,     \* ConfettiCannon: callbacks the rain() intervals still fire
  emojis,        \* EmojiExplosion: the active emojis
  emojiAnimationId,  \* EmojiExplosion: its animationId
  emojiFrames,   \* EmojiExplosion: frame callbacks requested and not yet run
  triggers,      \* how many effects the pages have triggered
  allItems,      \* shopping page: the list the page holds
  celebrationShown,  \* shopping page: the flag of checkCompletion
  loading,       \* shopping page: whether loadItems() awaits its fetch
  toggling,      \* shopping page: toggleItem calls awaiting their fetch
  timers,        \* shopping page: showCelebration timeouts not yet fired
  clearing       \* shopping page: DELETEs clearBoughtItems() has yet to await

serverVars ==
  <<variant, groceryItems, dataFile, table, clock, uuidCount, inflight, failures, last>>
fxVars ==
  <<particles, animationId, frames, rainTicks, emojis, emojiAnimationId,
    emojiFrames, triggers>>
pageVars == <<allItems, celebrationShown, loading, toggling, timers, clearing>>
vars == <<serverVars, fxVars, pageVars>>

(* ------------------------------ bounds -------------------------------- *)

MaxPosts == 2      \* POST /api/items is issued at most this many times
MaxInflight == 2   \* BigQuery variant: handlers suspended at the same time
MaxFailures == 1   \* storage calls (file reads and writes, queries) that fail

(* --------------------------- JavaScript values ------------------------- *)

Undefined == "undefined"
Null == "null"

\* ToBoolean: the falsy values among the ones the model uses.
Truthy(v) == v \notin {"undefined", "null", "false", "0", ""}

\* a || b
Or(a, b) == IF Truthy(a) THEN a ELSE b

\* uuidv4(): the n-th identifier generated; distinct calls give distinct values.
uuidv4(n) == "u" \o ToString(n)

\* new Date().toISOString() at clock value n.
toISOString(n) == "T" \o ToString(n)

\* new Date(iso): the clock value an ISO string stands for.
DateOf(iso) == CHOOSE n \in 0..(MaxPosts + 1) : toISOString(n) = iso

Variants == {"memory", "file", "bigquery"}

\* Request bodies of POST /api/items: all fields supplied, and optional fields
\* absent or supplied but falsy.
PostBodies ==
  { [name |-> "milk", quantity |-> "2", category |-> "dairy", notes |-> "ripe"],
    [name |-> "eggs", quantity |-> Undefined, category |-> Undefined, notes |-> ""] }

\* Request bodies of PUT /api/items/:id.
NoPatch == [bought |-> Undefined, quantity |-> Undefined, notes |-> Undefined]
PutBodies ==
  { [NoPatch EXCEPT !.bought = "true"],
    [NoPatch EXCEPT !.bought = "false"],
    [NoPatch EXCEPT !.bought = "yes"],
    [NoPatch EXCEPT !.notes = "x", !.quantity = "0"] }

\* The :id of a request: a generated identifier or one that was never generated.
RequestIds == {uuidv4(n) : n \in 1..MaxPosts} \cup {"nope"}

(* ----------------------------- array helpers --------------------------- *)

\* Array.prototype.findIndex, 1-based; 0 stands for JavaScript's -1.
findIndex(items, id) ==
  IF \E i \in 1..Len(items) : items[i].id = id
  THEN CHOOSE i \in 1..Len(items) :
         /\ items[i].id = id
         /\ \A j \in 1..(i - 1) : items[j].id # id
  ELSE 0

\* items.splice(i, 1) for a 1-based index i; an index past the end removes nothing.
splice(items, i) ==
  [k \in 1..(Len(items) - (IF i \in 1..Len(items) THEN 1 ELSE 0)) |->
     IF k < i THEN items[k] ELSE items[k + 1]]

\* items.filter(item => !item.bought)
filterNotBought(items) == SelectSeq(items, LAMBDA item : ~Truthy(item.bought))

Ids(items) == {items[i].id : i \in 1..Len(items)}

(* ------------------------- in-memory variant --------------------------- *)

\* The object POST /api/items builds (in-memory and file variants: no boughtAt).
NewItem(body, id, now) ==
  [id |-> id,
   name |-> body.name,
   quantity |-> Or(body.quantity, "1"),
   category |-> Or(body.category, "other"),
   notes |-> Or(body.notes, ""),
   bought |-> "false",
   createdAt |-> toISOString(now),
   boughtAt |-> Undefined]

\* A patch that assigns the three fields whether the body carries them or not.
ApplyPatchUnconditional(item, body) ==
  [item EXCEPT !.bought = body.bought, !.quantity = body.quantity,
               !.notes = body.notes]

\* if (x !== undefined) item.x = x, for bought, quantity and notes.
ApplyPatch(item, body) ==
  [item EXCEPT
     !.bought = IF body.bought # Undefined THEN body.bought ELSE @,
     !.quantity = IF body.quantity # Undefined THEN body.quantity ELSE @,
     !.notes = IF body.notes # Undefined THEN body.notes ELSE @]

\* Each handler as a function of the array: the array it leaves, the status and
\* the items of the response body.
Reply(items, status, body) == [items |-> items, status |-> status, body |-> body]

MemGet(items) == Reply(items, 200, items)

MemPost(items, body, id, now) ==
  LET newItem == NewItem(body, id, now)
  IN Reply(Append(items, newItem), 201, <<newItem>>)

MemPut(items, id, body) ==
  LET itemIndex == findIndex(items, id)
  IN IF itemIndex = 0
     THEN Reply(items, 404, <<>>)
     ELSE LET patched == ApplyPatch(items[itemIndex], body)
          IN Reply([items EXCEPT ![itemIndex] = patched], 200, <<patched>>)

\* A delete without the itemIndex === -1 check: splice(-1, 1) removes the last
\* element.
MemDeleteNoGuard(items, id) ==
  LET itemIndex == findIndex(items, id)
  IN Reply(splice(items, IF itemIndex = 0 THEN Len(items) ELSE itemIndex), 204, <<>>)

MemDelete(items, id) ==
  LET itemIndex == findIndex(items, id)
  IN IF itemIndex = 0
     THEN Reply(items, 404, <<>>)
     ELSE Reply(splice(items, itemIndex), 204, <<>>)

MemClear(items) == Reply(filterNotBought(items), 204, <<>>)

(* ---------------------------- file variant ----------------------------- *)

\* saveItems(): the file after the write; a failed write is logged and ignored.
\* JSON.stringify drops absent fields and JSON.parse leaves them absent, which
\* is what "undefined" stands for, so the document holds the items as they are.
saveItems(items, file, ok) ==
  IF ok THEN [exists |-> TRUE, data |-> items] ELSE file

\* loadItems(): the parsed document, or [] when the file is missing or the
\* read or the parse throws.
loadItems(file, ok) == IF file.exists /\ ok THEN file.data ELSE <<>>

FileGet(items) == Reply(items, 200, items)

FilePost(items, body, id, now) ==
  LET newItem == NewItem(body, id, now)
  IN Reply(Append(items, newItem), 201, <<newItem>>)

\* boughtAt is stamped when bought === true and deleted when bought === false.
FileStamp(item, bought, now) ==
  IF bought = "true" THEN [item EXCEPT !.boughtAt = toISOString(now)]
  ELSE IF bought = "false" THEN [item EXCEPT !.boughtAt = Undefined]
  ELSE item

FilePut(items, id, body, now) ==
  LET itemIndex == findIndex(items, id)
  IN IF itemIndex = 0
     THEN Reply(items, 404, <<>>)
     ELSE LET patched == FileStamp(ApplyPatch(items[itemIndex], body), body.bought, now)
          IN Reply([items EXCEPT ![itemIndex] = patched], 200, <<patched>>)

FileDelete(items, id) ==
  LET itemIndex == findIndex(items, id)
  IN IF itemIndex = 0
     THEN Reply(items, 404, <<>>)
     ELSE Reply(splice(items, itemIndex), 204, <<>>)

FileClear(items) == Reply(filterNotBought(items), 204, <<>>)

(* -------------------------- BigQuery variant --------------------------- *)

\* bigquery.timestamp(new Date(v)) when v is truthy, else null; the value read
\* back from a TIMESTAMP column is the ISO text of that instant.
bqTimestamp(v) == IF Truthy(v) THEN toISOString(DateOf(v)) ELSE Null

\* The query parameters insertItemToBigQuery and updateItemInBigQuery build.
BqParams(item) ==
  [id |-> item.id,
   name |-> item.name,
   quantity |-> item.quantity,
   category |-> item.category,
   notes |-> Or(item.notes, ""),
   bought |-> item.bought,
   createdAt |-> bqTimestamp(item.createdAt),
   boughtAt |-> bqTimestamp(item.boughtAt)]

\* The declared parameter types: a value that is not of its type (a bought that
\* is not a BOOL, a quantity that is not an INT64) makes the query fail.
BqAccepts(params) ==
  /\ params.bought \in {"true", "false"}
  /\ params.quantity \in {"0", "1", "2", "3"}
  /\ params.name \notin {Undefined, Null}

\* Each query as a function of the table and of whether the warehouse call
\* succeeds: the table it leaves and whether the awaited promise resolves.
Query(tbl, ok) == [table |-> tbl, ok |-> ok]

insertItemToBigQuery(tbl, item, ok) ==
  IF ok /\ BqAccepts(BqParams(item))
  THEN Query(tbl \cup {BqParams(item)}, TRUE)
  ELSE Query(tbl, FALSE)

\* MERGE ... WHEN MATCHED THEN UPDATE: a row with the id is overwritten, and
\* nothing happens when there is none.
updateItemInBigQuery(tbl, item, ok) ==
  IF ok /\ BqAccepts(BqParams(item))
  THEN Query({IF r.id = item.id THEN BqParams(item) ELSE r : r \in tbl}, TRUE)
  ELSE Query(tbl, FALSE)

deleteItemFromBigQuery(tbl, itemId, ok) ==
  IF ok THEN Query({r \in tbl : r.id # itemId}, TRUE) ELSE Query(tbl, FALSE)

deleteBoughtItemsFromBigQuery(tbl, ok) ==
  IF ok THEN Query({r \in tbl : r.bought # "true"}, TRUE) ELSE Query(tbl, FALSE)

\* SELECT * ... ORDER BY createdAt DESC: every order of the rows that is sorted
\* by createdAt, newest first (rows with equal createdAt come in any order).
OrderedRows(tbl) ==
  { rows \in [1..Cardinality(tbl) -> tbl] :
      /\ \A i, j \in 1..Cardinality(tbl) : i # j => rows[i] # rows[j]
      /\ \A i, j \in 1..Cardinality(tbl) :
           i < j => DateOf(rows[i].createdAt) >= DateOf(rows[j].createdAt) }

\* rows.map(row => ({...row, createdAt: ..., boughtAt: ...}))
RowToItem(row) ==
  [row EXCEPT
     !.createdAt = IF Truthy(row.createdAt) THEN row.createdAt ELSE Null,
     !.boughtAt = IF Truthy(row.boughtAt) THEN row.boughtAt ELSE Null]

\* loadItemsFromBigQuery(): the arrays it can return; [] when the query fails.
loadItemsFromBigQuery(tbl, ok) ==
  IF ok
  THEN { [i \in 1..Len(rows) |-> RowToItem(rows[i])] : rows \in OrderedRows(tbl) }
  ELSE { <<>> }

\* The object POST /api/items builds in the BigQuery variant.
BqNewItem(body, id, now) == [NewItem(body, id, now) EXCEPT !.boughtAt = Null]

\* PUT, up to the await: the array with the fields applied in place, and the
\* index found (0: not found, the handler answers 404).
BqStamp(item, bought, now) ==
  IF bought = "true" THEN [item EXCEPT !.boughtAt = toISOString(now)]
  ELSE IF bought = "false" THEN [item EXCEPT !.boughtAt = Null]
  ELSE item

BqPutBegin(items, id, body, now) ==
  LET itemIndex == findIndex(items, id)
  IN IF itemIndex = 0
     THEN [items |-> items, itemIndex |-> 0]
     ELSE [items |-> [items EXCEPT ![itemIndex] =
                        BqStamp(ApplyPatch(items[itemIndex], body), body.bought, now)],
           itemIndex |-> itemIndex]

\* What each handler does once its awaited query has settled, on the array as
\* it is at that moment.
BqGetDone(loaded) == Reply(loaded, 200, loaded)

BqPostDone(items, newItem, ok) ==
  IF ok THEN Reply(Append(items, newItem), 201, <<newItem>>)
  ELSE Reply(items, 500, <<>>)

BqPutDone(items, itemIndex, ok) ==
  IF ok
  THEN Reply(items, 200,
             IF itemIndex \in 1..Len(items) THEN <<items[itemIndex]>> ELSE <<>>)
  ELSE Reply(items, 500, <<>>)

BqDeleteDone(items, itemIndex, ok) ==
  IF ok THEN Reply(splice(items, itemIndex), 204, <<>>)
  ELSE Reply(items, 500, <<>>)

\* A clear that answers 204 whatever the query did.
BqClearDoneSwallow(items, ok) == Reply(filterNotBought(items), 204, <<>>)

BqClearDone(items, ok) ==
  IF ok THEN Reply(filterNotBought(items), 204, <<>>)
  ELSE Reply(items, 500, <<>>)

(* ------------------ requests processed one at a time ------------------- *)

\* The instant new Date() returns: the clock has advanced when a POST reads
\* it, and a PUT reads it as the last POST left it.
Now == clock

\* The outcomes of one storage call: TRUE when it succeeds.
Outcomes == IF failures < MaxFailures THEN BOOLEAN ELSE {TRUE}

\* Only the failures of the store count towards MaxFailures, not the queries
\* the warehouse rejects for their parameters.
Failed(injected) == failures' = failures + (IF injected THEN 1 ELSE 0)

NoRequest == [op |-> "none", status |-> 0, failed |-> FALSE]

\* The effects as the page scripts construct them: nothing active.
FxIdle ==
  /\ particles = <<>>
  /\ animationId = Null
  /\ frames = 0
  /\ rainTicks = 0
  /\ emojis = <<>>
  /\ emojiAnimationId = Null
  /\ emojiFrames = 0
  /\ triggers = 0

\* The shopping page before its script has run: let allItems = [], let
\* celebrationShown = false, nothing requested.
PageIdle ==
  /\ allItems = <<>>
  /\ celebrationShown = "false"
  /\ loading = "idle"
  /\ toggling = <<>>
  /\ timers = 0
  /\ clearing = 0

\* The handler has answered: r is its Reply, failed tells whether its storage
\* call failed. The body of a response is read off the array: GET sends the
\* array, POST the item it appended, PUT the item it patched.
Answer(op, r, failed, injected) ==
  /\ groceryItems' = r.items
  /\ last' = [op |-> op, status |-> r.status, failed |-> failed]
  /\ Failed(injected)

Init ==
  /\ variant \in Variants
  /\ groceryItems = <<>>
  /\ dataFile = [exists |-> FALSE, data |-> <<>>]
  /\ table = {}
  /\ clock = 0
  /\ uuidCount = 0
  /\ inflight = <<>>
  /\ failures = 0
  /\ last = NoRequest
  /\ FxIdle
  /\ PageIdle

\* GET /api/items
Get ==
  /\ \/ /\ variant = "memory"
        /\ Answer("get", MemGet(groceryItems), FALSE, FALSE)
     \/ /\ variant = "file"
        /\ Answer("get", FileGet(groceryItems), FALSE, FALSE)
     \/ /\ variant = "bigquery"
        /\ \E ok \in Outcomes :
             \E loaded \in loadItemsFromBigQuery(table, ok) :
               Answer("get", BqGetDone(loaded), ~ok, ~ok)
  /\ UNCHANGED <<variant, dataFile, table, clock, uuidCount, inflight, fxVars, pageVars>>

\* POST /api/items with the given body
Post(body) ==
  /\ uuidCount < MaxPosts
  /\ LET id == uuidv4(uuidCount + 1)
         now == Now + 1
     IN /\ clock' = now
        /\ uuidCount' = uuidCount + 1
        /\ \/ /\ variant = "memory"
              /\ Answer("post", MemPost(groceryItems, body, id, now), FALSE, FALSE)
              /\ UNCHANGED <<dataFile, table>>
           \/ /\ variant = "file"
              /\ \E ok \in Outcomes :
                   LET r == FilePost(groceryItems, body, id, now) IN
                   /\ Answer("post", r, ~ok, ~ok)
                   /\ dataFile' = saveItems(r.items, dataFile, ok)
              /\ UNCHANGED table
           \/ /\ variant = "bigquery"
              /\ \E ok \in Outcomes :
                   LET newItem == BqNewItem(body, id, now)
                       q == insertItemToBigQuery(table, newItem, ok)
                   IN /\ table' = q.table
                      /\ Answer("post", BqPostDone(groceryItems, newItem, q.ok),
                                ~q.ok, ~ok)
              /\ UNCHANGED dataFile
  /\ UNCHANGED <<variant, inflight, fxVars, pageVars>>

\* PUT /api/items/:id with the given body
Put(id, body) ==
  /\ \/ /\ variant = "memory"
        /\ Answer("put", MemPut(groceryItems, id, body), FALSE, FALSE)
        /\ UNCHANGED <<dataFile, table>>
     \/ /\ variant = "file"
        /\ LET r == FilePut(groceryItems, id, body, Now) IN
           IF r.status = 404
           THEN Answer("put", r, FALSE, FALSE) /\ UNCHANGED dataFile
           ELSE \E ok \in Outcomes :
                  /\ Answer("put", r, ~ok, ~ok)
                  /\ dataFile' = saveItems(r.items, dataFile, ok)
        /\ UNCHANGED table
     \/ /\ variant = "bigquery"
        /\ LET b == BqPutBegin(groceryItems, id, body, Now) IN
           IF b.itemIndex = 0
           THEN Answer("put", Reply(b.items, 404, <<>>), FALSE, FALSE)
                /\ UNCHANGED table
           ELSE \E ok \in Outcomes :
                  LET q == updateItemInBigQuery(table, b.items[b.itemIndex], ok)
                  IN /\ table' = q.table
                     /\ Answer("put", BqPutDone(b.items, b.itemIndex, q.ok),
                               ~q.ok, ~ok)
        /\ UNCHANGED dataFile
  /\ UNCHANGED <<variant, clock, uuidCount, inflight, fxVars, pageVars>>

\* DELETE /api/items/:id
Delete(id) ==
  /\ \/ /\ variant = "memory"
        /\ Answer("delete", MemDelete(groceryItems, id), FALSE, FALSE)
        /\ UNCHANGED <<dataFile, table>>
     \/ /\ variant = "file"
        /\ LET r == FileDelete(groceryItems, id) IN
           IF r.status = 404
           THEN Answer("delete", r, FALSE, FALSE) /\ UNCHANGED dataFile
           ELSE \E ok \in Outcomes :
                  /\ Answer("delete", r, ~ok, ~ok)
                  /\ dataFile' = saveItems(r.items, dataFile, ok)
        /\ UNCHANGED table
     \/ /\ variant = "bigquery"
        /\ LET itemIndex == findIndex(groceryItems, id) IN
           IF itemIndex = 0
           THEN Answer("delete", Reply(groceryItems, 404, <<>>), FALSE, FALSE)
                /\ UNCHANGED table
           ELSE \E ok \in Outcomes :
                  LET q == deleteItemFromBigQuery(table, id, ok)
                  IN /\ table' = q.table
                     /\ Answer("delete", BqDeleteDone(groceryItems, itemIndex, q.ok),
                               ~q.ok, ~ok)
        /\ UNCHANGED dataFile
  /\ UNCHANGED <<variant, clock, uuidCount, inflight, fxVars, pageVars>>

\* DELETE /api/items/bought/clear
Clear ==
  /\ \/ /\ variant = "memory"
        /\ Answer("clear", MemClear(groceryItems), FALSE, FALSE)
        /\ UNCHANGED <<dataFile, table>>
     \/ /\ variant = "file"
        /\ \E ok \in Outcomes :
             LET r == FileClear(groceryItems) IN
             /\ Answer("clear", r, ~ok, ~ok)
             /\ dataFile' = saveItems(r.items, dataFile, ok)
        /\ UNCHANGED table
     \/ /\ variant = "bigquery"
        /\ \E ok \in Outcomes :
             LET q == deleteBoughtItemsFromBigQuery(table, ok)
             IN /\ table' = q.table
                /\ Answer("clear", BqClearDone(groceryItems, q.ok), ~q.ok, ~ok)
        /\ UNCHANGED dataFile
  /\ UNCHANGED <<variant, clock, uuidCount, inflight, fxVars, pageVars>>

\* The process is started again: the array is what the variant loads at startup.
Restart ==
  /\ \/ /\ variant = "memory"
        /\ groceryItems' = <<>>
        /\ Failed(FALSE)
     \/ /\ variant = "file"
        /\ \E ok \in Outcomes :
             groceryItems' = loadItems(dataFile, ok) /\ Failed(~ok)
     \/ /\ variant = "bigquery"
        /\ \E ok \in Outcomes :
             groceryItems' \in loadItemsFromBigQuery(table, ok) /\ Failed(~ok)
  /\ last' = [NoRequest EXCEPT !.op = "restart"]
  /\ UNCHANGED <<variant, dataFile, table, clock, uuidCount, inflight, fxVars, pageVars>>

PostAny == \E body \in PostBodies : Post(body)
PutAny == \E id \in RequestIds, body \in PutBodies : Put(id, body)
DeleteAny == \E id \in RequestIds : Delete(id)

Next == Get \/ PostAny \/ PutAny \/ DeleteAny \/ Clear \/ Restart

Spec == Init /\ [][Next]_vars

(* --------- BigQuery variant: handlers suspended at their await --------- *)

NoItem ==
  [id |-> Undefined, name |-> Undefined, quantity |-> Undefined,
   category |-> Undefined, notes |-> Undefined, bought |-> Undefined,
   createdAt |-> Undefined, boughtAt |-> Undefined]

\* A handler that has issued its query and awaits it: the locals it holds
\* (id, itemIndex, the item it sent), whether the query has settled, and with
\* what result.
Handler(op, id, itemIndex, item) ==
  [op |-> op, id |-> id, itemIndex |-> itemIndex, item |-> item,
   phase |-> "query", ok |-> TRUE, loaded |-> <<>>]

Suspend(h) == inflight' = Append(inflight, h)

Respond(op, status, failed) ==
  last' = [op |-> op, status |-> status, failed |-> failed]

InitAsync ==
  /\ variant = "bigquery"
  /\ groceryItems = <<>>
  /\ dataFile = [exists |-> FALSE, data |-> <<>>]
  /\ table = {}
  /\ clock = 0
  /\ uuidCount = 0
  /\ inflight = <<>>
  /\ failures = 0
  /\ last = NoRequest
  /\ FxIdle
  /\ PageIdle

\* GET /api/items up to its await.
GetStart ==
  /\ Len(inflight) < MaxInflight
  /\ Suspend(Handler("get", "", 0, NoItem))
  /\ UNCHANGED <<variant, groceryItems, dataFile, table, clock, uuidCount, failures, last, fxVars, pageVars>>

\* POST /api/items up to its await: the item is built and the INSERT issued.
PostStart(body) ==
  /\ Len(inflight) < MaxInflight
  /\ uuidCount < MaxPosts
  /\ clock' = Now + 1
  /\ uuidCount' = uuidCount + 1
  /\ Suspend(Handler("post", "", 0, BqNewItem(body, uuidv4(uuidCount + 1), Now + 1)))
  /\ UNCHANGED <<variant, groceryItems, dataFile, table, failures, last, fxVars, pageVars>>

\* PUT /api/items/:id up to its await: 404, or the item is patched in the
\* array and the MERGE issued with the patched item's fields.
PutStart(id, body) ==
  /\ LET b == BqPutBegin(groceryItems, id, body, Now) IN
     IF b.itemIndex = 0
     THEN /\ Respond("put", 404, FALSE)
          /\ UNCHANGED <<groceryItems, inflight>>
     ELSE /\ Len(inflight) < MaxInflight
          /\ groceryItems' = b.items
          /\ Suspend(Handler("put", id, b.itemIndex, b.items[b.itemIndex]))
          /\ UNCHANGED last
  /\ UNCHANGED <<variant, dataFile, table, clock, uuidCount, failures, fxVars, pageVars>>

\* DELETE /api/items/:id up to its await: 404, or the DELETE is issued.
DeleteStart(id) ==
  /\ LET itemIndex == findIndex(groceryItems, id) IN
     IF itemIndex = 0
     THEN /\ Respond("delete", 404, FALSE)
          /\ UNCHANGED inflight
     ELSE /\ Len(inflight) < MaxInflight
          /\ Suspend(Handler("delete", id, itemIndex, NoItem))
          /\ UNCHANGED last
  /\ UNCHANGED <<variant, groceryItems, dataFile, table, clock, uuidCount, failures, fxVars, pageVars>>

\* DELETE /api/items/bought/clear up to its await.
ClearStart ==
  /\ Len(inflight) < MaxInflight
  /\ Suspend(Handler("clear", "", 0, NoItem))
  /\ UNCHANGED <<variant, groceryItems, dataFile, table, clock, uuidCount, failures, last, fxVars, pageVars>>

\* The warehouse runs the query of the i-th suspended handler.
RunQuery(i) ==
  /\ i \in 1..Len(inflight)
  /\ inflight[i].phase = "query"
  /\ LET h == inflight[i] IN
     \E ok \in Outcomes :
       /\ Failed(~ok)
       /\ IF h.op = "get"
          THEN /\ \E loaded \in loadItemsFromBigQuery(table, ok) :
                    inflight' = [inflight EXCEPT ![i].phase = "settled",
                                                 ![i].ok = TRUE,
                                                 ![i].loaded = loaded]
               /\ UNCHANGED table
          ELSE LET q == IF h.op = "post" THEN insertItemToBigQuery(table, h.item, ok)
                        ELSE IF h.op = "put" THEN updateItemInBigQuery(table, h.item, ok)
                        ELSE IF h.op = "delete" THEN deleteItemFromBigQuery(table, h.id, ok)
                        ELSE deleteBoughtItemsFromBigQuery(table, ok)
               IN /\ table' = q.table
                  /\ inflight' = [inflight EXCEPT ![i].phase = "settled",
                                                  ![i].ok = q.ok]
  /\ UNCHANGED <<variant, groceryItems, dataFile, clock, uuidCount, last, fxVars, pageVars>>

\* The i-th suspended handler runs from its await to its response.
Resume(i) ==
  /\ i \in 1..Len(inflight)
  /\ inflight[i].phase = "settled"
  /\ LET h == inflight[i]
         r == IF h.op = "get" THEN BqGetDone(h.loaded)
              ELSE IF h.op = "post" THEN BqPostDone(groceryItems, h.item, h.ok)
              ELSE IF h.op = "put" THEN BqPutDone(groceryItems, h.itemIndex, h.ok)
              ELSE IF h.op = "delete" THEN BqDeleteDone(groceryItems, h.itemIndex, h.ok)
              ELSE BqClearDone(groceryItems, h.ok)
     IN /\ groceryItems' = r.items
        /\ Respond(h.op, r.status, ~h.ok)
        /\ inflight' = splice(inflight, i)
  /\ UNCHANGED <<variant, dataFile, table, clock, uuidCount, failures, fxVars, pageVars>>

\* The bodies of the overlapping requests: the races are between the handlers'
\* steps, whatever the fields carried.
AsyncPostBodies == { b \in PostBodies : b.quantity = "2" }
AsyncPutBodies == { b \in PutBodies : b.bought = "true" }

PostStartAny == \E body \in AsyncPostBodies : PostStart(body)
PutStartAny == \E id \in RequestIds, body \in AsyncPutBodies : PutStart(id, body)
DeleteStartAny == \E id \in RequestIds : DeleteStart(id)
RunQueryAny == \E i \in 1..MaxInflight : RunQuery(i)
ResumeAny == \E i \in 1..MaxInflight : Resume(i)

NextAsync ==
  \/ GetStart \/ PostStartAny \/ PutStartAny \/ DeleteStartAny \/ ClearStart
  \/ RunQueryAny \/ ResumeAny

SpecAsync == InitAsync /\ [][NextAsync]_vars

\* The same handlers when no DELETE and no clear request is sent.
NextNoRemoval == GetStart \/ PostStartAny \/ PutStartAny \/ RunQueryAny \/ ResumeAny

SpecNoRemoval == InitAsync /\ [][NextNoRemoval]_vars

(* -------------------------- particle effects --------------------------- *)
(* Lengths are in tenths of a pixel. A particle's life is counted in units  *)
(* of the default decay: life 1 is LifeSpan units (100 in the source, where  *)
(* the default decay is 0.01) and the emojis' decay 0.02 is 2 units.         *)
(* Position x, the rotation and the drawing take no part in what the loop   *)
(* keeps or removes and are left out; age counts the frames that advanced a *)
(* particle.                                                                *)

LifeSpan == 4       \* frames a particle of the default decay lives
CanvasHeight == 100 \* window.innerHeight
RainTicks == 1      \* interval callbacks of one rain() before clearInterval
MaxTriggers == 2    \* effects triggered in one behaviour

\* Math.random(): the ends of its range.
Rand == {0, 1}

\* How many particles one trigger asks for (50 to 150 in the page scripts).
Counts == {1, 2}

\* a || b for numbers: 0 and an absent option are both falsy.
OrNum(a, b) == IF a # 0 THEN a ELSE b

NoOptions == [velocity |-> 0, gravity |-> 0, drag |-> 0, decay |-> 0]

\* The options fire() is called with: none, a quick decay, a heavy gravity.
FireOptions ==
  { NoOptions, [NoOptions EXCEPT !.decay = 2], [NoOptions EXCEPT !.gravity = 400] }

\* createParticle(x, y, options) with Math.random() = r for the velocity.
createParticle(y, options, r) ==
  [y |-> y,
   vy |-> -(r * OrNum(options.velocity, 150) + 50),
   gravity |-> OrNum(options.gravity, 3),
   drag |-> OrNum(options.drag, 99),
   life |-> LifeSpan,
   decay |-> OrNum(options.decay, 1),
   age |-> 0]

\* The physics of one frame for one particle.
Advance(p) ==
  [p EXCEPT !.y = p.y + p.vy,
            !.vy = ((p.vy + p.gravity) * p.drag) \div 100,
            !.life = p.life - p.decay,
            !.age = p.age + 1]

\* A removal test that looks at the position only.
DeadOffCanvasOnly(p) == p.y > CanvasHeight + 500

\* if (p.life <= 0 || p.y > this.canvas.height + 50)
Dead(p) == p.life <= 0 \/ p.y > CanvasHeight + 500

\* The loop of animate(): every particle advanced, the dead ones spliced out.
AnimateParticles(ps) == SelectSeq([i \in 1..Len(ps) |-> Advance(ps[i])], LAMBDA p : ~Dead(p))

\* ConfettiCannon.animate() on the particles ps, with pending frame callbacks
\* still requested: a further frame is requested while particles remain.
CannonAnimate(ps, pending) ==
  LET rest == AnimateParticles(ps) IN
  /\ particles' = rest
  /\ IF Len(rest) > 0
     THEN animationId' = "handle" /\ frames' = pending + 1
     ELSE animationId' = Null /\ frames' = pending

\* A trigger that calls animate() whether or not a frame is requested.
CannonStartAlways(ps) == CannonAnimate(ps, frames)

\* if (!this.animationId) this.animate(), at the end of a trigger that left ps.
CannonStart(ps) ==
  IF ~Truthy(animationId)
  THEN CannonAnimate(ps, frames)
  ELSE particles' = ps /\ UNCHANGED <<animationId, frames>>

Triggered ==
  /\ triggers < MaxTriggers
  /\ triggers' = triggers + 1

\* fire(x, y, count, options)
Fire(y, count, options) ==
  /\ Triggered
  /\ \E rs \in [1..count -> Rand] :
       CannonStart(particles \o [i \in 1..count |-> createParticle(y, options, rs[i])])
  /\ UNCHANGED <<rainTicks, emojis, emojiAnimationId, emojiFrames, serverVars, pageVars>>

\* celebrate(count): count / 2 particles from each side, at 0.7 of the height.
Celebrate(count) ==
  /\ Triggered
  /\ LET half == (count + 1) \div 2
         opts == [NoOptions EXCEPT !.velocity = 180]
         y == (CanvasHeight * 7) \div 10
     IN \E rs \in [1..(2 * half) -> Rand] :
          CannonStart(particles \o [i \in 1..(2 * half) |-> createParticle(y, opts, rs[i])])
  /\ UNCHANGED <<rainTicks, emojis, emojiAnimationId, emojiFrames, serverVars, pageVars>>

\* burst(x, y, count): vy is overwritten by sin(angle) * velocity, upwards for
\* some particles and downwards for others.
Burst(y, count) ==
  /\ Triggered
  /\ \E vs \in [1..count -> {-180, 80}] :
       CannonStart(particles \o
         [i \in 1..count |-> [createParticle(y, NoOptions, 0) EXCEPT !.vy = vs[i]]])
  /\ UNCHANGED <<rainTicks, emojis, emojiAnimationId, emojiFrames, serverVars, pageVars>>

\* rain(count, duration): the interval is set, and animate() is called when
\* the loop is idle, on the particles there are.
Rain ==
  /\ Triggered
  /\ rainTicks' = rainTicks + RainTicks
  /\ CannonStart(particles)
  /\ UNCHANGED <<emojis, emojiAnimationId, emojiFrames, serverVars, pageVars>>

\* One callback of a rain() interval: 3 particles from above the canvas,
\* moving down.
RainTick ==
  /\ rainTicks > 0
  /\ rainTicks' = rainTicks - 1
  /\ \E rs \in [1..3 -> Rand] :
       particles' = particles \o
         [i \in 1..3 |->
            LET p == createParticle(-200, [NoOptions EXCEPT !.velocity = 20,
                                                            !.gravity = 2], rs[i])
            IN [p EXCEPT !.vy = -p.vy]]
  /\ UNCHANGED <<animationId, frames, emojis, emojiAnimationId, emojiFrames,
                 triggers, serverVars, pageVars>>

\* A frame callback of the cannon runs animate().
CannonFrame ==
  /\ frames > 0
  /\ CannonAnimate(particles, frames - 1)
  /\ UNCHANGED <<rainTicks, emojis, emojiAnimationId, emojiFrames, triggers, serverVars, pageVars>>

\* The physics of one frame for one emoji.
EmojiAdvance(e) ==
  [e EXCEPT !.y = e.y + e.vy,
            !.vy = e.vy + 3,
            !.life = e.life - e.decay,
            !.age = e.age + 1]

\* The loop of EmojiExplosion.animate(): if (e.life <= 0) the emoji is removed.
AnimateEmojis(es) == SelectSeq([i \in 1..Len(es) |-> EmojiAdvance(es[i])], LAMBDA e : ~(e.life <= 0))

EmojiAnimate(es, pending) ==
  LET rest == AnimateEmojis(es) IN
  /\ emojis' = rest
  /\ IF Len(rest) > 0
     THEN emojiAnimationId' = "handle" /\ emojiFrames' = pending + 1
     ELSE emojiAnimationId' = Null /\ emojiFrames' = pending

\* explode(x, y, emoji, count): vy = sin(angle) * velocity - 5.
Explode(y, count) ==
  /\ Triggered
  /\ \E vs \in [1..count -> {-150, 50}] :
       LET es == emojis \o [i \in 1..count |->
                   [y |-> y, vy |-> vs[i], life |-> LifeSpan, decay |-> 2, age |-> 0]]
       IN IF ~Truthy(emojiAnimationId)
          THEN EmojiAnimate(es, emojiFrames)
          ELSE emojis' = es /\ UNCHANGED <<emojiAnimationId, emojiFrames>>
  /\ UNCHANGED <<particles, animationId, frames, rainTicks, serverVars, pageVars>>

\* A frame callback of the emoji explosion runs animate().
EmojiFrame ==
  /\ emojiFrames > 0
  /\ EmojiAnimate(emojis, emojiFrames - 1)
  /\ UNCHANGED <<particles, animationId, frames, rainTicks, triggers, serverVars, pageVars>>

\* Where the page scripts fire from: the top and the bottom of the canvas.
Ys == {0, CanvasHeight}

InitFx ==
  /\ variant = "memory"
  /\ groceryItems = <<>>
  /\ dataFile = [exists |-> FALSE, data |-> <<>>]
  /\ table = {}
  /\ clock = 0
  /\ uuidCount = 0
  /\ inflight = <<>>
  /\ failures = 0
  /\ last = NoRequest
  /\ FxIdle
  /\ PageIdle

FireAny == \E y \in Ys, count \in Counts, options \in FireOptions : Fire(y, count, options)
CelebrateAny == \E count \in Counts : Celebrate(count)
BurstAny == \E y \in Ys, count \in Counts : Burst(y, count)
ExplodeAny == \E y \in Ys, count \in Counts : Explode(y, count)

NextFx ==
  \/ FireAny \/ CelebrateAny \/ BurstAny \/ Rain \/ RainTick \/ CannonFrame
  \/ ExplodeAny \/ EmojiFrame

SpecFx == InitFx /\ [][NextFx]_vars

\* The browser keeps running the callbacks it was asked for: the requested
\* frames and the ticks of a running interval.
SpecFxLive ==
  SpecFx /\ WF_vars(CannonFrame) /\ WF_vars(EmojiFrame) /\ WF_vars(RainTick)

(* --------------------------- shopping page ----------------------------- *)
(* Of an item the page logic reads id and bought only. partyTime() and       *)
(* showCelebration() act on the effects alone, whose triggers are the        *)
(* actions of SpecFx; rendering and the progress bar hold no state.          *)

MaxToggling == 2  \* toggleItem calls awaiting their fetch at one time
MaxTimers == 1    \* showCelebration timeouts pending at one time

\* !v
Not(v) == IF Truthy(v) THEN "false" ELSE "true"

PageItem(id, bought) == [id |-> id, bought |-> bought]

\* The bodies GET /api/items answers the page with: up to MaxPosts items.
Responses ==
  UNION { { [i \in 1..n |-> PageItem(uuidv4(i), bs[i])] : bs \in [1..n -> {"true", "false"}] }
          : n \in 0..MaxPosts }

\* How a fetch of the page ends: the status of the response, or a rejection
\* (the network call failed). fetch resolves whatever the status.
FetchOutcomes == {"200", "404", "500", "reject"}

\* allItems.filter(i => i.bought).length
BoughtCount(items) == Len(SelectSeq(items, LAMBDA it : Truthy(it.bought)))

\* A checkCompletion() that does not look at the flag before it schedules.
checkCompletionEveryTime(items, shown) ==
  IF Len(items) > 0 /\ BoughtCount(items) = Len(items)
  THEN [celebrationShown |-> "true", scheduled |-> 1]
  ELSE [celebrationShown |-> "false", scheduled |-> 0]

\* checkCompletion(): the flag it leaves and whether it sets the timeout.
checkCompletion(items, shown) ==
  IF Len(items) > 0 /\ BoughtCount(items) = Len(items) /\ ~Truthy(shown)
  THEN [celebrationShown |-> "true", scheduled |-> 1]
  ELSE IF BoughtCount(items) < Len(items)
  THEN [celebrationShown |-> "false", scheduled |-> 0]
  ELSE [celebrationShown |-> shown, scheduled |-> 0]

\* DOMContentLoaded: loadItems() up to its fetch.
LoadItemsStart ==
  /\ loading = "idle"
  /\ loading' = "fetch"
  /\ UNCHANGED <<allItems, celebrationShown, toggling, timers, clearing, serverVars, fxVars>>

\* loadItems() after its fetch: the list is replaced by the response, or the
\* error is logged. The objects of the response are new ones: a toggleItem
\* that awaits its fetch is left holding an item that is no longer in the list
\* (item 0).
LoadItemsDone ==
  /\ loading = "fetch"
  /\ loading' = "done"
  /\ \/ /\ \E response \in Responses : allItems' = response
        /\ toggling' = [k \in 1..Len(toggling) |-> [toggling[k] EXCEPT !.item = 0]]
     \/ UNCHANGED <<allItems, toggling>>
  /\ UNCHANGED <<celebrationShown, timers, clearing, serverVars, fxVars>>

\* toggleItem(id, event) up to its await: the item is looked up, its flag
\* flipped in the list, and the PUT sent.
ToggleItem(id) ==
  /\ findIndex(allItems, id) # 0
  /\ Len(toggling) < MaxToggling
  /\ LET i == findIndex(allItems, id)
         newBoughtStatus == Not(allItems[i].bought)
     IN /\ allItems' = [allItems EXCEPT ![i].bought = newBoughtStatus]
        /\ toggling' = Append(toggling,
                              [id |-> id, item |-> i, newBoughtStatus |-> newBoughtStatus])
  /\ UNCHANGED <<celebrationShown, loading, timers, clearing, serverVars, fxVars>>

\* toggleItem after its await: checkCompletion() when the fetch resolved, the
\* catch block when it rejected.
ToggleSettled(k, outcome) ==
  /\ k \in 1..Len(toggling)
  /\ toggling' = splice(toggling, k)
  /\ IF outcome = "reject"
     THEN /\ allItems' = IF toggling[k].item = 0 THEN allItems
                         ELSE [allItems EXCEPT ![toggling[k].item].bought =
                                                 Not(toggling[k].newBoughtStatus)]
          /\ UNCHANGED <<celebrationShown, timers>>
     ELSE LET c == checkCompletion(allItems, celebrationShown) IN
          /\ timers + c.scheduled <= MaxTimers
          /\ celebrationShown' = c.celebrationShown
          /\ timers' = timers + c.scheduled
          /\ UNCHANGED allItems
  /\ UNCHANGED <<loading, clearing, serverVars, fxVars>>

\* The timeout of checkCompletion fires: showCelebration().
ShowCelebration ==
  /\ timers > 0
  /\ timers' = timers - 1
  /\ UNCHANGED <<allItems, celebrationShown, loading, toggling, clearing, serverVars, fxVars>>

\* clearBoughtItems() up to its first await: there are bought items and the
\* user confirms; one DELETE per bought item is to be sent, each awaited in
\* turn. One call runs at a time, and none while the list is being reloaded.
clearBoughtItems ==
  /\ clearing = 0
  /\ loading = "done"
  /\ BoughtCount(allItems) > 0
  /\ clearing' = BoughtCount(allItems)
  /\ UNCHANGED <<allItems, celebrationShown, loading, toggling, timers, serverVars, fxVars>>

\* clearBoughtItems() after an await: a rejected fetch ends the call in its
\* catch block; after the last DELETE the flag is reset and loadItems() called.
ClearDeleteSettled(outcome) ==
  /\ clearing > 0
  /\ IF outcome = "reject"
     THEN clearing' = 0 /\ UNCHANGED <<celebrationShown, loading>>
     ELSE IF clearing = 1
     THEN clearing' = 0 /\ celebrationShown' = "false" /\ loading' = "fetch"
     ELSE clearing' = clearing - 1 /\ UNCHANGED <<celebrationShown, loading>>
  /\ UNCHANGED <<allItems, toggling, timers, serverVars, fxVars>>

InitPage ==
  /\ variant = "memory"
  /\ groceryItems = <<>>
  /\ dataFile = [exists |-> FALSE, data |-> <<>>]
  /\ table = {}
  /\ clock = 0
  /\ uuidCount = 0
  /\ inflight = <<>>
  /\ failures = 0
  /\ last = NoRequest
  /\ FxIdle
  /\ PageIdle

ToggleItemAny == \E id \in RequestIds : ToggleItem(id)
ToggleSettledAny == \E k \in 1..MaxToggling, outcome \in FetchOutcomes : ToggleSettled(k, outcome)
ClearDeleteSettledAny == \E outcome \in FetchOutcomes : ClearDeleteSettled(outcome)

NextPage ==
  \/ LoadItemsStart \/ LoadItemsDone \/ ToggleItemAny \/ ToggleSettledAny
  \/ ShowCelebration \/ clearBoughtItems \/ ClearDeleteSettledAny

SpecPage == InitPage /\ [][NextPage]_vars

(* ----------------------- properties of the server ---------------------- *)

Supplied(v) == v # Undefined
Cleared(v) == v \in {Undefined, Null}

\* The items of an array, whatever their order.
ItemSet(items) == {items[i] : i \in 1..Len(items)}
SameItems(a, b) == Len(a) = Len(b) /\ ItemSet(a) = ItemSet(b)

\* after is before plus one item at the end, built from body.
Created(before, after, body) ==
  /\ Len(after) = Len(before) + 1
  /\ SubSeq(after, 1, Len(before)) = before
  /\ LET x == after[Len(after)] IN
     /\ x.id \notin Ids(before)
     /\ x.createdAt # Undefined /\ x.createdAt # Null
     /\ x.name = body.name
     /\ Supplied(body.quantity) => x.quantity = body.quantity
     /\ Supplied(body.category) => x.category = body.category
     /\ Supplied(body.notes) => x.notes = body.notes
     /\ x.bought = "false"

\* C1: in every variant a POST answered 201 appends one item carrying the
\* supplied fields and bought = false, and a GET that follows it returns the
\* items of the array as the POST left it (the previous items and the new one).
C1_CreateThenList ==
  [][ /\ \A body \in PostBodies :
           Post(body) /\ last'.status = 201
             => Created(groceryItems, groceryItems', body)
      /\ last.op = "post" /\ last.status = 201 /\ Get
           => SameItems(groceryItems', groceryItems) ]_vars

\* C2: in every variant a PUT answered 200 with bought = true leaves the item
\* with a non-null boughtAt, one with bought = false leaves boughtAt cleared,
\* and one that carries no bought leaves boughtAt as it was.
C2_BoughtAtFollowsBought ==
  [][ \A id \in RequestIds, body \in PutBodies :
        Put(id, body) /\ last'.status = 200 =>
          LET i == findIndex(groceryItems, id) IN
          /\ body.bought = "true" => ~Cleared(groceryItems'[i].boughtAt)
          /\ body.bought = "false" => Cleared(groceryItems'[i].boughtAt)
          /\ body.bought = Undefined =>
               groceryItems'[i].boughtAt = groceryItems[i].boughtAt ]_vars

\* C3: in every variant DELETE /api/items/:id with an id that no item carries
\* answers 404 and leaves the array and the backing store as they were.
C3_DeleteUnknown ==
  [][ \A id \in RequestIds :
        Delete(id) /\ id \notin Ids(groceryItems) =>
          /\ last'.op = "delete" /\ last'.status = 404
          /\ groceryItems' = groceryItems
          /\ dataFile' = dataFile /\ table' = table ]_vars

\* A DELETE of an unknown id was answered 404 while the array held items.
C3_Witness ==
  /\ last.op = "delete" /\ last.status = 404
  /\ Len(groceryItems) = MaxPosts

\* C4: after a clear answered 204 the array holds exactly the items whose
\* bought was not the boolean true, in their previous order.
C4_ClearRemovesOnlyTrue ==
  [][ Clear /\ last'.status = 204 =>
        groceryItems' = SelectSeq(groceryItems, LAMBDA item : item.bought # "true")
    ]_vars

\* The arrays the last GET of POST x, GET, PUT x {bought: true}, GET, DELETE x,
\* GET can return when no storage call fails, started from array items, file
\* and table tbl.
RoundTripEnds(v, items, tbl) ==
  LET id == uuidv4(uuidCount + 1)
      now == Now + 1
      body == CHOOSE b \in PostBodies : b.quantity = "2"
      patch == [NoPatch EXCEPT !.bought = "true"]
  IN IF v = "memory"
     THEN LET a == MemGet(MemPost(items, body, id, now).items).items
              b == MemGet(MemPut(a, id, patch).items).items
          IN { MemGet(MemDelete(b, id).items).body }
     ELSE IF v = "file"
     THEN LET a == FileGet(FilePost(items, body, id, now).items).items
              b == FileGet(FilePut(a, id, patch, now).items).items
          IN { FileGet(FileDelete(b, id).items).body }
     ELSE LET x == BqNewItem(body, id, now)
              t1 == insertItemToBigQuery(tbl, x, TRUE).table
          IN UNION { LET p == BqPutBegin(a, id, patch, now)
                         t2 == updateItemInBigQuery(t1, p.items[p.itemIndex], TRUE).table
                     IN UNION { LET t3 == deleteItemFromBigQuery(t2, id, TRUE).table
                                IN { BqGetDone(c).body :
                                       c \in loadItemsFromBigQuery(t3, TRUE) }
                                : b \in loadItemsFromBigQuery(t2, TRUE) }
                     : a \in loadItemsFromBigQuery(t1, TRUE) }

\* C5: from any reachable array C, create x, list, mark x bought, list, delete
\* x, list ends with the last list returning C: same items, same order.
C5_RoundTrip ==
  \A end \in RoundTripEnds(variant, groceryItems, table) : end = groceryItems

\* Every element that a frame left in the loop still has life: it has been
\* advanced fewer than life / decay times.
LifeLeft(seq) ==
  \A i \in 1..Len(seq) : seq[i].decay > 0 => seq[i].age * seq[i].decay < LifeSpan

C7_UniqueIds ==
  \A i, j \in 1..Len(groceryItems) :
    i # j => groceryItems[i].id # groceryItems[j].id

\* The target of a PUT keeps f unless the body carries f.
Kept(old, new, body, f) ==
  new[f] = IF body[f] # Undefined THEN body[f] ELSE old[f]

\* C8: a PUT answered 200 changes only the target item, and on it only the
\* fields the body carries among bought, quantity and notes (and boughtAt when
\* it carries bought); a PUT with an unknown id answers 404, changing nothing.
C8_PutFrame ==
  [][ \A id \in RequestIds, body \in PutBodies :
        Put(id, body) =>
          LET i == findIndex(groceryItems, id) IN
          IF i = 0
          THEN last'.status = 404 /\ groceryItems' = groceryItems
          ELSE last'.status = 200 =>
                 /\ Len(groceryItems') = Len(groceryItems)
                 /\ \A j \in 1..Len(groceryItems) :
                      j # i => groceryItems'[j] = groceryItems[j]
                 /\ \A f \in {"id", "name", "category", "createdAt"} :
                      groceryItems'[i][f] = groceryItems[i][f]
                 /\ \A f \in {"bought", "quantity", "notes"} :
                      Kept(groceryItems[i], groceryItems'[i], body, f)
                 /\ body.bought = Undefined =>
                      groceryItems'[i].boughtAt = groceryItems[i].boughtAt ]_vars

\* A PUT was answered 200 on an array of two items, one of them patched with
\* notes and quantity, the other as created.
C8_Witness ==
  /\ last.op = "put" /\ last.status = 200
  /\ Len(groceryItems) = 2
  /\ \E i, j \in 1..2 :
       /\ groceryItems[i].notes = "x" /\ groceryItems[i].quantity = "0"
       /\ groceryItems[i].name = "milk" /\ groceryItems[i].bought = "false"
       /\ groceryItems[j].notes = "" /\ groceryItems[j].name = "eggs"

\* C9 as stated: the clear is answered 204 whatever the store did.
C9_ClearAlways204 == last.op = "clear" => last.status = 204

\* C9, amended: the clear is answered 204, except in the BigQuery variant when
\* its DELETE query fails, where it is answered 500.
C9_Clear204UnlessQueryFails ==
  last.op = "clear" =>
    last.status = IF variant = "bigquery" /\ last.failed THEN 500 ELSE 204

\* The BigQuery variant answered a clear whose query failed.
C9_Witness ==
  /\ variant = "bigquery" /\ last.op = "clear" /\ last.failed
  /\ last.status = 500 /\ groceryItems # <<>>

\* C10: a request whose storage call failed is answered 500.
C10_StorageFailureIs500 == last.failed => last.status = 500

(* ------------------- properties: concurrency, failures ------------------ *)

\* C11: between a handler's findIndex and that handler's own mutation of the
\* array (the DELETE handler awaits its query in between) no other handler
\* mutates or replaces the array: every step that changes the array while a
\* DELETE handler is suspended is that handler's own resumption.
C11_NoMutationBetweenLookupAndMutation ==
  [][ \A i \in 1..Len(inflight) :
        (inflight[i].op = "delete" /\ groceryItems' # groceryItems) => Resume(i) ]_vars

\* C12: a POST, PUT, DELETE or clear answered 404 or 500 leaves the array as it
\* was before the request.
C12_NoPartialEffect ==
  [][ ((PostAny \/ PutAny \/ DeleteAny \/ Clear) /\ last'.status \in {404, 500})
        => groceryItems' = groceryItems ]_vars

\* C13: whenever the PUT of a toggleItem fails (the server answers 404 or 500,
\* or the call rejects), the item's flag in the page's list is, once toggleItem
\* has completed, back at the value it had before that toggle.
C13_ToggleRevertsOnFailure ==
  [][ \A k \in 1..MaxToggling, outcome \in {"404", "500", "reject"} :
        (ToggleSettled(k, outcome) /\ toggling[k].item # 0) =>
          allItems'[toggling[k].item].bought = Not(toggling[k].newBoughtStatus) ]_vars

\* C18: when DELETE /api/items/:id answers 204, the array is left without the
\* item whose id is :id and with every other item, unchanged and in the same
\* order. Sequential handlers (Delete) and the suspended handler of the BigQuery
\* variant (Resume) alike.
C18_DeleteRemovesTheItem ==
  [][ /\ \A id \in RequestIds :
           (Delete(id) /\ last'.status = 204) =>
             groceryItems' = SelectSeq(groceryItems, LAMBDA item : item.id # id)
      /\ \A i \in 1..Len(inflight) :
           (inflight[i].op = "delete" /\ Resume(i) /\ last'.status = 204) =>
             groceryItems' =
               SelectSeq(groceryItems, LAMBDA item : item.id # inflight[i].id) ]_vars

\* The POST that created the item with this id has been answered 201: its row
\* is in the table and its handler has returned.
Answered201(id) ==
  /\ \E row \in table : row.id = id
  /\ \A i \in 1..Len(inflight) : ~(inflight[i].op = "post" /\ inflight[i].item.id = id)

\* C19: with no DELETE and no clear issued, a PUT for the id of an item whose
\* POST was answered 201 finds the item in the array.
C19_PutFindsCreatedItem ==
  [][ \A id \in RequestIds, body \in AsyncPutBodies :
        (PutStart(id, body) /\ Answered201(id)) => findIndex(groceryItems, id) # 0 ]_vars

\* C15: the in-memory and the file variant answer alike. From every array the
\* in-memory variant reaches, each request is answered by the handlers of the
\* two variants with the same status and the same items in the body, and
\* leaves the same array (same ids and timestamps, no storage failure); by
\* induction on the sequence of requests the two variants then stay together.
C15_MemoryAndFileAnswerAlike ==
  (variant = "memory") =>
    /\ MemGet(groceryItems) = FileGet(groceryItems)
    /\ \A body \in PostBodies :
         MemPost(groceryItems, body, uuidv4(uuidCount + 1), Now + 1)
           = FilePost(groceryItems, body, uuidv4(uuidCount + 1), Now + 1)
    /\ \A id \in RequestIds, body \in PutBodies :
         MemPut(groceryItems, id, body) = FilePut(groceryItems, id, body, Now)
    /\ \A id \in RequestIds : MemDelete(groceryItems, id) = FileDelete(groceryItems, id)
    /\ MemClear(groceryItems) = FileClear(groceryItems)

\* C16: every item of the array has a positive integer quantity.
C16_QuantityPositive ==
  \A i \in 1..Len(groceryItems) : groceryItems[i].quantity \in {"1", "2", "3"}

(* ----------------------- properties of the effects ---------------------- *)

\* C14: every particle added to an active set is eventually advanced by frames
\* and removed: from some point on both sets are empty and no frame is
\* requested (the loops are idle).
C14_EventuallyIdle ==
  <>[](/\ particles = <<>> /\ animationId = Null /\ frames = 0
       /\ emojis = <<>> /\ emojiAnimationId = Null /\ emojiFrames = 0)

\* An element is expired when its life has run out or it is lower than the
\* given height.
Expired(p, height) == p.life <= 0 \/ p.y > height

\* C17: a frame leaves in the active set exactly the advanced elements that
\* are not expired, in their order: the cannon drops a particle whose life is
\* <= 0 or whose y is beyond the canvas height plus 50, the explosion an emoji
\* whose life is <= 0 or that is below the visible area (the window's height).
C17_FrameRemovesExactlyExpired ==
  [][ /\ CannonFrame =>
           particles' = SelectSeq([i \in 1..Len(particles) |-> Advance(particles[i])],
                                  LAMBDA p : ~Expired(p, CanvasHeight + 500))
      /\ EmojiFrame =>
           emojis' = SelectSeq([i \in 1..Len(emojis) |-> EmojiAdvance(emojis[i])],
                               LAMBDA e : ~Expired(e, CanvasHeight)) ]_vars

\* C20: each object has at most one frame callback pending, and its
\* animationId is non-null exactly when one is pending.
C20_OneFramePending ==
  /\ frames <= 1
  /\ (animationId # Null) <=> (frames = 1)
  /\ emojiFrames <= 1
  /\ (emojiAnimationId # Null) <=> (emojiFrames = 1)

\* A trigger has added a particle (not yet advanced, and not one of rain) to a
\* cannon whose frame was pending: the cannon still has one frame pending.
C20_Witness ==
  /\ frames = 1
  /\ animationId # Null
  /\ \E i, j \in 1..Len(particles) :
       particles[i].age > 0 /\ particles[j].age = 0 /\ particles[j].gravity # 2

(* ------------------- properties of the shopping page ------------------- *)

\* C21: showCelebration is scheduled only by a checkCompletion() (the one a
\* toggleItem runs when its fetch has resolved) that sees a non-empty list with
\* every item bought while celebrationShown is false, and that sets the flag:
\* while the flag is true nothing is scheduled. The flag goes back to false
\* only when a checkCompletion() sees an unbought item or when
\* clearBoughtItems() resets it after its last DELETE.
C21_CelebrationOncePerEpisode ==
  [][ /\ (timers' > timers) =>
           /\ timers' = timers + 1
           /\ allItems # <<>>
           /\ BoughtCount(allItems) = Len(allItems)
           /\ celebrationShown = "false"
           /\ celebrationShown' = "true"
           /\ \E k \in 1..Len(toggling) : ToggleSettled(k, "200")
      /\ (celebrationShown = "true" /\ celebrationShown' = "false") =>
           \/ /\ BoughtCount(allItems) < Len(allItems)
              /\ \E k \in 1..Len(toggling) : ToggleSettled(k, "200")
           \/ clearing = 1 /\ ClearDeleteSettled("200") ]_vars

\* The celebration of an episode is scheduled, every item is bought, and a
\* toggleItem that overlapped the one that scheduled it is still awaiting its
\* fetch: its checkCompletion() will run with the flag set.
C21_Witness ==
  /\ celebrationShown = "true"
  /\ timers = 1
  /\ Len(allItems) = MaxPosts
  /\ BoughtCount(allItems) = Len(allItems)
  /\ toggling # <<>>

====
